---- MODULE Spec2Model ----
(***************************************************************************)
(* Model of Tyra's IrxLoader (irx_loader.cpp): the constructor with its    *)
(* optional I/O-processor reset and the three SBV patches, loadAll with    *)
(* the static isLoaded guard, every load* function at the granularity of   *)
(* one SifExecModuleBuffer call followed by its TYRA_ASSERT, and the USB   *)
(* readiness poll.                                                         *)
(*                                                                         *)
(* A process is a set of threads (the domain of th); each thread runs a    *)
(* driver that constructs IrxLoader objects and calls loadAll on them.     *)
(* Everything the program does to the outside world (patch toggles, module *)
(* loads, stat probes, I/O-processor resets, the store to isLoaded) is     *)
(* appended to the history variable trace, tagged with the number of the   *)
(* driver operation (construction or loadAll call) that issued it.         *)
(***************************************************************************)
EXTENDS Integers, Sequences, FiniteSets, TLC

VARIABLES
  build,      \* the preprocessor configuration the binary was built with
  isLoaded,   \* static bool IrxLoader::isLoaded
  fatal,      \* "none", or the message of the TYRA_ASSERT that halted the process
  th,         \* per thread: program counter, arguments and locals
  trace,      \* history: the external calls issued so far, in order
  logs,       \* the TYRA_LOG messages emitted so far, in order
  loaders,    \* number of IrxLoader objects whose constructor has returned
  nCtor,      \* number of constructions started
  nCalls,     \* number of loadAll calls started
  sched       \* the thread that ran last and the context switches so far

vars ==
  <<build, isLoaded, fatal, th, trace, logs, loaders, nCtor, nCalls, sched>>

----------------------------------------------------------------------------
(* Bounds of the model                                                     *)

\* IrxLoader objects constructed in one process
MaxLoaders == 2
\* loadAll calls made in one process
MaxCalls == 2
\* the device answers the stat probe with 0 either within the first
\* MaxReadyProbe probes of a poll, or at the very last probe of the budget,
\* or not at all
MaxReadyProbe == 2
\* context switches between the threads of a process with several threads
MaxSwitches == 1

----------------------------------------------------------------------------
(* Program constants                                                       *)

\* int retries = 50;
Retries == 50
\* delay(5);
InitialDelay == 5

\* the values a signed status is drawn from: a failure and a success
StatusValues == {-1, 0}

\* the preprocessor switches the file tests
BuildConfigs ==
  [RESET_IOP : BOOLEAN, USE_USBDMINI : BOOLEAN, USE_USBBDMINI : BOOLEAN,
   ATAD : BOOLEAN]

----------------------------------------------------------------------------
(* Module images and batches                                               *)

\* #ifdef USE_USBDMINI ... #else ... #endif in loadUsbModules
UsbDriverImage(b) == IF b.USE_USBDMINI THEN "usbd_mini_irx" ELSE "usbd_irx"
UsbMassImage(b) ==
  IF b.USE_USBDMINI THEN "usbmass_bd_mini_irx" ELSE "usbmass_bd_irx"

\* the EXTERN_IRX declarations at the head of the file, with their
\* #ifdef USE_USBBDMINI ... #else ... #endif
DeclaredImages(b) ==
  {"sio2man_irx", "padman_irx", "audsrv_irx", "libsd_irx", "fileXio_irx",
   "iomanX_irx", "bdm_irx", "bdmfs_fatfs_irx",
   "ps2hdd_irx", "ps2fs_irx", "ps2dev9_irx", "ps2atad_irx"}
  \cup (IF b.USE_USBBDMINI THEN {"usbd_mini_irx", "usbmass_bd_irx"}
                           ELSE {"usbd_irx", "usbmass_bd_mini_irx"})

Range(s) == {s[i] : i \in 1..Len(s)}

PatchOrder ==
  <<"sbv_patch_enable_lmb", "sbv_patch_disable_prefix_check", "sbv_patch_fileio">>

----------------------------------------------------------------------------
(* Events of the history                                                   *)

\* kind: "patch", "load", "probe", "delay", "reset", "store"
\* res: the value the program gets from the call and tests (for a load, the
\* local ret after the call; for a delay, its count)
Ev(kind, name, op, res) ==
  [kind |-> kind, name |-> name, op |-> op, res |-> res]

\* locals of a thread that is not inside any operation; startLen is the
\* length the history had when the thread's current operation started
IdleThread ==
  [pc |-> "idle", op |-> 0, withUsb |-> FALSE, withHdd |-> FALSE,
   isLoggingToFile |-> FALSE, ret |-> <<>>, execStatus |-> 0,
   statRet |-> -1, retries |-> 0, nopdelays |-> 0, startLen |-> 0]

Halted == fatal # "none"

Init ==
  /\ build \in BuildConfigs
  /\ isLoaded = FALSE
  /\ fatal = "none"
  /\ th = [t \in {1} |-> IdleThread]
  /\ trace = <<>>
  /\ logs = <<>>
  /\ loaders = 0
  /\ nCtor = 0
  /\ nCalls = 0
  /\ sched = [running |-> 1, switches |-> 0]

----------------------------------------------------------------------------
(* debug.hpp: the logging and assertion macros                             *)

\* TYRA_LOG(msg): one more message on the log
TYRA_LOG(l, msg) == Append(l, msg)

\* if (verbose) TYRA_LOG(msg)
LogIf(cond, msg) == IF cond THEN <<msg>> ELSE <<>>

\* TYRA_ASSERT(cond, msg): a false condition halts the process for good,
\* carrying the message
TYRA_ASSERT(cond, msg) == IF cond THEN "none" ELSE msg

\* a variant of the condition that lets every status pass
AssertOkAlways(ret) == TRUE

\* the condition of every TYRA_ASSERT of the file: ret >= 0
AssertOk(ret) == ret >= 0

----------------------------------------------------------------------------
(* The driver: what a thread of the process may do next                    *)

\* the number the next driver operation gets
NextOp == nCtor + nCalls + 1

\* IrxLoader::IrxLoader(), entry: with RESET_IOP the I/O processor is reset
\* first, otherwise the patches follow at once
Construct(t) ==
  /\ ~Halted
  /\ th[t].pc = "idle"
  /\ nCtor < MaxLoaders
  /\ nCtor' = nCtor + 1
  /\ th' = [th EXCEPT ![t].op = NextOp,
                      ![t].startLen = Len(trace),
                      ![t].pc = IF build.RESET_IOP THEN "SifIopReset"
                                ELSE "sbv_patch_enable_lmb"]
  /\ UNCHANGED <<build, isLoaded, fatal, trace, logs, loaders, nCalls>>

\* SifInitRpc(0); while (!SifIopReset(nullptr, 0)) {};
\* a zero answer repeats the call, a non-zero one has reset the I/O processor
IopReset(t) ==
  /\ ~Halted
  /\ th[t].pc = "SifIopReset"
  /\ \E r \in {0, 1} :
       IF r = 0
       THEN UNCHANGED <<th, trace>>
       ELSE /\ trace' = Append(trace, Ev("reset", "SifIopReset", th[t].op, r))
            /\ th' = [th EXCEPT ![t].pc = "SifIopSync"]
  /\ UNCHANGED <<build, isLoaded, fatal, logs, loaders, nCtor, nCalls>>

\* while (!SifIopSync()) {}; SifInitRpc(0);
IopSync(t) ==
  /\ ~Halted
  /\ th[t].pc = "SifIopSync"
  /\ \E r \in {0, 1} :
       IF r = 0
       THEN UNCHANGED th
       ELSE th' = [th EXCEPT ![t].pc = "sbv_patch_enable_lmb"]
  /\ UNCHANGED <<build, isLoaded, fatal, trace, logs, loaders, nCtor, nCalls>>

----------------------------------------------------------------------------
(* IrxLoader::applyRpcPatches                                              *)

PatchMessage(name) ==
  CASE name = "sbv_patch_enable_lmb" ->
         "Failed to load Applying SBV Patches sbv_patch_enable_lmb"
    [] name = "sbv_patch_disable_prefix_check" ->
         "Failed to load Applying SBV Patches sbv_patch_disable_prefix_check"
    [] OTHER -> "Failed to load Applying SBV Patches sbv_patch_fileio"

\* a variant of applyRpcPatches that returns after the second toggle
AfterPatchSkipsLast(i) == IF i < 2 THEN PatchOrder[i + 1] ELSE "idle"

\* where a thread goes after the i-th toggle has passed its assertion; after
\* the third one applyRpcPatches and the constructor return
AfterPatch(i) == IF i < Len(PatchOrder) THEN PatchOrder[i + 1] ELSE "idle"

\* ret = sbv_patch_...(); TYRA_ASSERT(ret >= 0, ...);
ApplyPatch(t, i) ==
  /\ ~Halted
  /\ th[t].pc = PatchOrder[i]
  /\ \E ret \in StatusValues :
       /\ trace' = Append(trace, Ev("patch", PatchOrder[i], th[t].op, ret))
       /\ fatal' = TYRA_ASSERT(AssertOk(ret), PatchMessage(PatchOrder[i]))
       /\ IF AssertOk(ret)
          THEN /\ th' = [th EXCEPT ![t] =
                           IF AfterPatch(i) = "idle" THEN IdleThread
                           ELSE [@ EXCEPT !.pc = AfterPatch(i)]]
               /\ loaders' = IF AfterPatch(i) = "idle" THEN loaders + 1 ELSE loaders
          ELSE UNCHANGED <<th, loaders>>
  /\ UNCHANGED <<build, isLoaded, logs, nCtor, nCalls>>

PatchEnableLmb(t) == ApplyPatch(t, 1)
PatchDisablePrefixCheck(t) == ApplyPatch(t, 2)
PatchFileio(t) == ApplyPatch(t, 3)

----------------------------------------------------------------------------
(* IrxLoader::loadAll                                                      *)

\* a variant of the guard that never fires
AlreadyLoadedNever == FALSE

\* if (isLoaded)
AlreadyLoaded == isLoaded

\* a variant of loadAll that leaves out the audio server without an HDD batch
AfterUsbSkipsAudsrv(l) == IF l.withHdd THEN "loadHddModules_1" ELSE "markLoaded"

\* if (withHdd) loadHddModules(...); loadAudsrv(true);
AfterUsb(l) == IF l.withHdd THEN "loadHddModules_1" ELSE "loadAudsrv"

\* a variant of loadAll that loads the USB batch unconditionally
AfterLibsdAlwaysUsb(l) == "loadUsbModules_1"

\* if (withUsb) loadUsbModules(...);
AfterLibsd(l) == IF l.withUsb THEN "loadUsbModules_1" ELSE AfterUsb(l)

\* verbose, as loadAll passes it to every loader but loadAudsrv
Verbose(l) == ~l.isLoggingToFile

\* a call of loadAll on a constructed object, up to the guard: either the
\* no-op return or the start of loadIO
LoadAll(t) ==
  /\ ~Halted
  /\ th[t].pc = "idle"
  /\ loaders >= 1
  /\ nCalls < MaxCalls
  /\ nCalls' = nCalls + 1
  /\ \E withUsb \in BOOLEAN, withHdd \in BOOLEAN, isLoggingToFile \in BOOLEAN :
       th' = [th EXCEPT ![t] =
                [@ EXCEPT !.op = NextOp, !.withUsb = withUsb,
                          !.withHdd = withHdd,
                          !.isLoggingToFile = isLoggingToFile,
                          !.startLen = Len(trace),
                          !.pc = IF AlreadyLoaded THEN "loadAll_ret"
                                 ELSE "loadIO_1"]]
  /\ logs' = IF AlreadyLoaded THEN TYRA_LOG(logs, "IRX modules already loaded!")
             ELSE logs
  /\ UNCHANGED <<build, isLoaded, fatal, trace, loaders, nCtor>>

\* isLoaded = true;
MarkLoaded(t) ==
  /\ ~Halted
  /\ th[t].pc = "markLoaded"
  /\ isLoaded' = TRUE
  /\ trace' = Append(trace, Ev("store", "isLoaded", th[t].op, 1))
  /\ th' = [th EXCEPT ![t].pc = "loadAll_ret"]
  /\ UNCHANGED <<build, fatal, logs, loaders, nCtor, nCalls>>

\* the return of loadAll: arguments and locals go out of scope
LoadAllReturn(t) ==
  /\ ~Halted
  /\ th[t].pc = "loadAll_ret"
  /\ th' = [th EXCEPT ![t] = IdleThread]
  /\ UNCHANGED <<build, isLoaded, fatal, trace, logs, loaders, nCtor, nCalls>>

----------------------------------------------------------------------------
(* The load primitive and one load step                                    *)

\* SifExecModuleBuffer(image, size, 0, nullptr, &ret): it returns a status,
\* which every caller in this file discards, and writes the module's result
\* through the last argument unless it failed before the module ran
ExecOutcomes ==
  {o \in [status : StatusValues, written : BOOLEAN, modres : StatusValues] :
     /\ o.status >= 0 => o.written
     /\ ~o.written => o.modres = 0}

\* the local ret after the call: written, or left as it was
RetAfterExec(before, o) == IF o.written THEN <<o.modres>> ELSE before

\* the values a read of the local may yield: any, while it is uninitialized
ReadInt(slot) == IF slot = <<>> THEN StatusValues ELSE {slot[1]}

\* int ret; at the top of a function: uninitialized
FreshRet == <<>>

\* SifExecModuleBuffer(&image, ...); TYRA_ASSERT(ret >= 0, msg);
\* with the log messages the function emits before and after it. The status
\* the primitive returned is dropped by the code; execStatus remembers that of
\* the latest call for the record only, no action reads it
LoadStep(t, image, before, logBefore, msg, logAfter, next) ==
  /\ ~Halted
  /\ \E o \in ExecOutcomes :
       \E v \in ReadInt(RetAfterExec(before, o)) :
         /\ trace' = Append(trace, Ev("load", image, th[t].op, v))
         /\ fatal' = TYRA_ASSERT(AssertOk(v), msg)
         /\ IF AssertOk(v)
            THEN /\ th' = [th EXCEPT ![t].pc = next, ![t].ret = <<v>>,
                                     ![t].execStatus = o.status]
                 /\ logs' = logs \o logBefore \o logAfter
            ELSE /\ th' = [th EXCEPT ![t].ret = <<v>>,
                                     ![t].execStatus = o.status]
                 /\ logs' = logs \o logBefore
  /\ UNCHANGED <<build, isLoaded, loaders, nCtor, nCalls>>

----------------------------------------------------------------------------
(* IrxLoader::loadIO, loadSio2man, loadPadman, loadLibsd                   *)

\* loadIO, first half: iomanX
LoadIO_iomanX(t) ==
  /\ th[t].pc = "loadIO_1"
  /\ LoadStep(t, "iomanX_irx", FreshRet,
              LogIf(Verbose(th[t]), "IRX: Loading iomanX..."),
              "Failed to load module: iomanX_irx",
              LogIf(Verbose(th[t]), "IRX: iomanX loaded!"),
              "loadIO_2")

\* loadIO, second half: fileXio, through the same local ret
LoadIO_fileXio(t) ==
  /\ th[t].pc = "loadIO_2"
  /\ LoadStep(t, "fileXio_irx", th[t].ret,
              LogIf(Verbose(th[t]), "IRX: Loading fileXio..."),
              "Failed to load module: fileXio_irx",
              LogIf(Verbose(th[t]), "IRX: fileXio_irx loaded!"),
              "loadSio2man")

\* a variant of loadSio2man that passes the pad image
LoadSio2man_PadImage(t) ==
  /\ th[t].pc = "loadSio2man"
  /\ LoadStep(t, "padman_irx", FreshRet,
              LogIf(Verbose(th[t]), "IRX: Loading sio2man..."),
              "Failed to load module: sio2man_irx",
              LogIf(Verbose(th[t]), "IRX: Sio2man loaded!"),
              "loadPadman")

LoadSio2man(t) ==
  /\ th[t].pc = "loadSio2man"
  /\ LoadStep(t, "sio2man_irx", FreshRet,
              LogIf(Verbose(th[t]), "IRX: Loading sio2man..."),
              "Failed to load module: sio2man_irx",
              LogIf(Verbose(th[t]), "IRX: Sio2man loaded!"),
              "loadPadman")

LoadPadman(t) ==
  /\ th[t].pc = "loadPadman"
  /\ LoadStep(t, "padman_irx", FreshRet,
              LogIf(Verbose(th[t]), "IRX: Loading padman..."),
              "Failed to load module: padman_irx",
              LogIf(Verbose(th[t]), "IRX: Padman loaded!"),
              "loadLibsd")

\* a variant of loadLibsd that loads the module only when logging is verbose
LoadLibsd_OnlyIfVerbose(t) ==
  /\ th[t].pc = "loadLibsd"
  /\ IF Verbose(th[t])
       THEN LoadStep(t, "libsd_irx", FreshRet,
                     <<"IRX: Loading libsd...">>,
                     "Failed to load module: libsd_irx",
                     <<"IRX: Libsd loaded!">>,
                     AfterLibsd(th[t]))
       ELSE /\ ~Halted
            /\ th' = [th EXCEPT ![t].pc = AfterLibsd(th[t])]
            /\ UNCHANGED <<build, isLoaded, fatal, trace, logs, loaders,
                           nCtor, nCalls>>

LoadLibsd(t) ==
  /\ th[t].pc = "loadLibsd"
  /\ LoadStep(t, "libsd_irx", FreshRet,
              LogIf(Verbose(th[t]), "IRX: Loading libsd..."),
              "Failed to load module: libsd_irx",
              LogIf(Verbose(th[t]), "IRX: Libsd loaded!"),
              AfterLibsd(th[t]))

----------------------------------------------------------------------------
(* IrxLoader::loadUsbModules                                               *)

\* a variant of loadUsbModules that starts with the block-device manager
LoadUsb_bdmFirst(t) ==
  /\ th[t].pc = "loadUsbModules_1"
  /\ LoadStep(t, "bdm_irx", FreshRet,
              LogIf(Verbose(th[t]), "IRX: Loading usb modules..."),
              "Failed to load module: bdm_irx", <<>>,
              "loadUsbModules_2")

LoadUsb_usbd(t) ==
  /\ th[t].pc = "loadUsbModules_1"
  /\ LoadStep(t, UsbDriverImage(build), FreshRet,
              LogIf(Verbose(th[t]), "IRX: Loading usb modules..."),
              "Failed to load module: usbd_irx", <<>>,
              "loadUsbModules_2")

LoadUsb_usbmass(t) ==
  /\ th[t].pc = "loadUsbModules_2"
  /\ LoadStep(t, UsbMassImage(build), th[t].ret, <<>>,
              "Failed to load module: usbmass", <<>>,
              "loadUsbModules_3")

LoadUsb_bdm(t) ==
  /\ th[t].pc = "loadUsbModules_3"
  /\ LoadStep(t, "bdm_irx", th[t].ret, <<>>,
              "Failed to load module: bdm_irx", <<>>,
              "loadUsbModules_4")

\* a variant of loadUsbModules that returns without waiting for the device
LoadUsb_bdmfs_fatfs_NoWait(t) ==
  /\ th[t].pc = "loadUsbModules_4"
  /\ LoadStep(t, "bdmfs_fatfs_irx", th[t].ret, <<>>,
              "Failed to load module: bdmfs_fatfs",
              LogIf(Verbose(th[t]), "IRX: Usb modules loaded!"),
              AfterUsb(th[t]))

LoadUsb_bdmfs_fatfs(t) ==
  /\ th[t].pc = "loadUsbModules_4"
  /\ LoadStep(t, "bdmfs_fatfs_irx", th[t].ret, <<>>,
              "Failed to load module: bdmfs_fatfs", <<>>,
              "waitUntilUsbDeviceIsReady")

----------------------------------------------------------------------------
(* IrxLoader::waitUntilUsbDeviceIsReady and IrxLoader::delay               *)

\* delay(count): count rounds of a spin that counts 0x01000000 down to zero;
\* it terminates and touches nothing but its own locals
delay(count) == Ev("delay", "delay", 0, count)

\* int ret = -1; int retries = 50; delay(5);
WaitEnter(t) ==
  /\ ~Halted
  /\ th[t].pc = "waitUntilUsbDeviceIsReady"
  /\ th' = [th EXCEPT ![t].pc = "waitLoop", ![t].statRet = -1,
                      ![t].retries = Retries, ![t].nopdelays = 0]
  /\ trace' = Append(trace, [delay(InitialDelay) EXCEPT !.op = th[t].op])
  /\ UNCHANGED <<build, isLoaded, fatal, logs, loaders, nCtor, nCalls>>

\* a variant of the loop condition that allows one round too many
WaitConditionOffByOne(l) == l.statRet # 0 /\ l.retries >= 0

\* a variant of the loop condition that keeps probing after a success
WaitConditionIgnoresRet(l) == l.retries > 0

\* while (ret != 0 && retries > 0)
WaitCondition(l) == l.statRet # 0 /\ l.retries > 0

\* what stat("mass:/", &buffer) may answer at the probe that follows `done`
\* earlier probes of the same poll, `left` being the retries still available
StatOutcomes(done, left) ==
  {-1} \cup (IF done < MaxReadyProbe \/ left = 1 THEN {0} ELSE {})

\* a variant of the loop body that forgets retries--
Probe_NoCountdown(t) ==
  /\ ~Halted
  /\ th[t].pc = "waitLoop"
  /\ WaitCondition(th[t])
  /\ \E r \in StatOutcomes(Retries - th[t].retries, th[t].retries) :
       /\ trace' = Append(trace, Ev("probe", "mass:/", th[t].op, r))
       /\ th' = [th EXCEPT ![t].statRet = r,
                           ![t].nopdelays = @ + 1]
  /\ UNCHANGED <<build, isLoaded, fatal, logs, loaders, nCtor, nCalls>>

\* one round of the loop: ret = stat("mass:/", &buffer); nopdelay(); retries--;
Probe(t) ==
  /\ ~Halted
  /\ th[t].pc = "waitLoop"
  /\ WaitCondition(th[t])
  /\ \E r \in StatOutcomes(Retries - th[t].retries, th[t].retries) :
       /\ trace' = Append(trace, Ev("probe", "mass:/", th[t].op, r))
       /\ th' = [th EXCEPT ![t].statRet = r,
                           ![t].nopdelays = @ + 1,
                           ![t].retries = @ - 1]
  /\ UNCHANGED <<build, isLoaded, fatal, logs, loaders, nCtor, nCalls>>

\* a variant of the return that treats a device that never answered as fatal
WaitReturn_AssertReady(t) ==
  /\ ~Halted
  /\ th[t].pc = "waitLoop"
  /\ ~WaitCondition(th[t])
  /\ fatal' = TYRA_ASSERT(th[t].statRet = 0, "Usb device is not ready")
  /\ th' = IF th[t].statRet = 0
             THEN [th EXCEPT ![t].pc = AfterUsb(th[t]), ![t].statRet = -1,
                             ![t].retries = 0, ![t].nopdelays = 0]
             ELSE th
  /\ logs' = logs \o LogIf(Verbose(th[t]) /\ th[t].statRet = 0,
                           "IRX: Usb modules loaded!")
  /\ UNCHANGED <<build, isLoaded, trace, loaders, nCtor, nCalls>>

\* the loop ends, the poll returns to loadUsbModules, which logs and returns
WaitReturn(t) ==
  /\ ~Halted
  /\ th[t].pc = "waitLoop"
  /\ ~WaitCondition(th[t])
  /\ th' = [th EXCEPT ![t].pc = AfterUsb(th[t]), ![t].statRet = -1,
                      ![t].retries = 0, ![t].nopdelays = 0]
  /\ logs' = logs \o LogIf(Verbose(th[t]), "IRX: Usb modules loaded!")
  /\ UNCHANGED <<build, isLoaded, fatal, trace, loaders, nCtor, nCalls>>

----------------------------------------------------------------------------
(* IrxLoader::loadHddModules and IrxLoader::loadAudsrv                     *)

LoadHdd_ps2hdd(t) ==
  /\ th[t].pc = "loadHddModules_1"
  /\ LoadStep(t, "ps2hdd_irx", FreshRet,
              LogIf(Verbose(th[t]), "IRX: Loading Hdd Modules!"),
              "Failed to load module: ps2hdd_irx", <<>>,
              "loadHddModules_2")

LoadHdd_ps2fs(t) ==
  /\ th[t].pc = "loadHddModules_2"
  /\ LoadStep(t, "ps2fs_irx", th[t].ret, <<>>,
              "Failed to load module: ps2fs_irx", <<>>,
              "loadHddModules_3")

\* #ifdef ATAD: ps2atad follows, otherwise the function logs and returns
LoadHdd_ps2dev9(t) ==
  /\ th[t].pc = "loadHddModules_3"
  /\ LoadStep(t, "ps2dev9_irx", th[t].ret, <<>>,
              "Failed to load module: ps2dev9_irx",
              IF build.ATAD THEN <<>>
              ELSE LogIf(Verbose(th[t]), "IRX: Hdd modules loaded"),
              IF build.ATAD THEN "loadHddModules_4" ELSE "loadAudsrv")

LoadHdd_ps2atad(t) ==
  /\ th[t].pc = "loadHddModules_4"
  /\ LoadStep(t, "ps2atad_irx", th[t].ret, <<>>,
              "Failed to load module: ps2atad.irx",
              LogIf(Verbose(th[t]), "IRX: Hdd modules loaded"),
              "loadAudsrv")

\* loadAudsrv(true): always verbose
LoadAudsrv(t) ==
  /\ th[t].pc = "loadAudsrv"
  /\ LoadStep(t, "audsrv_irx", FreshRet,
              <<"IRX: Loading audsrv...">>,
              "Failed to load module: audsrv_irx",
              <<"IRX: Audsrv loaded!">>,
              "markLoaded")

----------------------------------------------------------------------------
(* The process                                                             *)

\* thread t takes the next step: it is the thread that ran last, or the
\* processor switches to it
Run(t) ==
  \/ /\ sched.running = t
     /\ sched' = sched
  \/ /\ sched.running # t
     /\ sched.switches < MaxSwitches
     /\ sched' = [running |-> t, switches |-> sched.switches + 1]

Next ==
  \/ \E t \in DOMAIN th : Run(t) /\ Construct(t)
  \/ \E t \in DOMAIN th : Run(t) /\ IopReset(t)
  \/ \E t \in DOMAIN th : Run(t) /\ IopSync(t)
  \/ \E t \in DOMAIN th : Run(t) /\ PatchEnableLmb(t)
  \/ \E t \in DOMAIN th : Run(t) /\ PatchDisablePrefixCheck(t)
  \/ \E t \in DOMAIN th : Run(t) /\ PatchFileio(t)
  \/ \E t \in DOMAIN th : Run(t) /\ LoadAll(t)
  \/ \E t \in DOMAIN th : Run(t) /\ LoadIO_iomanX(t)
  \/ \E t \in DOMAIN th : Run(t) /\ LoadIO_fileXio(t)
  \/ \E t \in DOMAIN th : Run(t) /\ LoadSio2man(t)
  \/ \E t \in DOMAIN th : Run(t) /\ LoadPadman(t)
  \/ \E t \in DOMAIN th : Run(t) /\ LoadLibsd(t)
  \/ \E t \in DOMAIN th : Run(t) /\ LoadUsb_usbd(t)
  \/ \E t \in DOMAIN th : Run(t) /\ LoadUsb_usbmass(t)
  \/ \E t \in DOMAIN th : Run(t) /\ LoadUsb_bdm(t)
  \/ \E t \in DOMAIN th : Run(t) /\ LoadUsb_bdmfs_fatfs(t)
  \/ \E t \in DOMAIN th : Run(t) /\ WaitEnter(t)
  \/ \E t \in DOMAIN th : Run(t) /\ Probe(t)
  \/ \E t \in DOMAIN th : Run(t) /\ WaitReturn(t)
  \/ \E t \in DOMAIN th : Run(t) /\ LoadHdd_ps2hdd(t)
  \/ \E t \in DOMAIN th : Run(t) /\ LoadHdd_ps2fs(t)
  \/ \E t \in DOMAIN th : Run(t) /\ LoadHdd_ps2dev9(t)
  \/ \E t \in DOMAIN th : Run(t) /\ LoadHdd_ps2atad(t)
  \/ \E t \in DOMAIN th : Run(t) /\ LoadAudsrv(t)
  \/ \E t \in DOMAIN th : Run(t) /\ MarkLoaded(t)
  \/ \E t \in DOMAIN th : Run(t) /\ LoadAllReturn(t)

Spec == Init /\ [][Next]_vars

\* two threads call loadAll on a loader that one of them has constructed in a
\* build without RESET_IOP and with ATAD: the state after `IrxLoader l;` with
\* the three toggles applied. The file has no lock, so the statements of the
\* two calls interleave, here with at most MaxSwitches changes of the running
\* thread
InitConc ==
  /\ build = [RESET_IOP |-> FALSE, USE_USBDMINI |-> FALSE,
              USE_USBBDMINI |-> FALSE, ATAD |-> TRUE]
  /\ isLoaded = FALSE
  /\ fatal = "none"
  /\ th = [t \in {1, 2} |-> IdleThread]
  /\ trace = [i \in 1..Len(PatchOrder) |-> Ev("patch", PatchOrder[i], 1, 0)]
  /\ logs = <<>>
  /\ loaders = 1
  /\ nCtor = 1
  /\ nCalls = 0
  /\ sched = [running |-> 1, switches |-> 0]

\* the steps of loadAll and of what it calls
NextConc ==
  \/ \E t \in DOMAIN th : Run(t) /\ LoadAll(t)
  \/ \E t \in DOMAIN th : Run(t) /\ LoadIO_iomanX(t)
  \/ \E t \in DOMAIN th : Run(t) /\ LoadIO_fileXio(t)
  \/ \E t \in DOMAIN th : Run(t) /\ LoadSio2man(t)
  \/ \E t \in DOMAIN th : Run(t) /\ LoadPadman(t)
  \/ \E t \in DOMAIN th : Run(t) /\ LoadLibsd(t)
  \/ \E t \in DOMAIN th : Run(t) /\ LoadUsb_usbd(t)
  \/ \E t \in DOMAIN th : Run(t) /\ LoadUsb_usbmass(t)
  \/ \E t \in DOMAIN th : Run(t) /\ LoadUsb_bdm(t)
  \/ \E t \in DOMAIN th : Run(t) /\ LoadUsb_bdmfs_fatfs(t)
  \/ \E t \in DOMAIN th : Run(t) /\ WaitEnter(t)
  \/ \E t \in DOMAIN th : Run(t) /\ Probe(t)
  \/ \E t \in DOMAIN th : Run(t) /\ WaitReturn(t)
  \/ \E t \in DOMAIN th : Run(t) /\ LoadHdd_ps2hdd(t)
  \/ \E t \in DOMAIN th : Run(t) /\ LoadHdd_ps2fs(t)
  \/ \E t \in DOMAIN th : Run(t) /\ LoadHdd_ps2dev9(t)
  \/ \E t \in DOMAIN th : Run(t) /\ LoadHdd_ps2atad(t)
  \/ \E t \in DOMAIN th : Run(t) /\ LoadAudsrv(t)
  \/ \E t \in DOMAIN th : Run(t) /\ MarkLoaded(t)
  \/ \E t \in DOMAIN th : Run(t) /\ LoadAllReturn(t)

SpecConc == InitConc /\ [][NextConc]_vars

\* every call the thread makes returns: a step that can be taken is taken
LiveSpec == Spec /\ WF_vars(Next)

----------------------------------------------------------------------------
(* Reading the history                                                     *)

Idx == 1..Len(trace)

\* the events of kind k issued by operation o, in order
EventsOf(o, k) == SelectSeq(trace, LAMBDA e : e.op = o /\ e.kind = k)

\* the names of a sequence of events
Names(evs) == [i \in 1..Len(evs) |-> evs[i].name]

\* positions of the store that sets isLoaded
Stores == {i \in Idx : trace[i].kind = "store"}

\* thread t is inside a loadAll call that found isLoaded already set
InNoOpCall(t) ==
  /\ th[t].pc = "loadAll_ret"
  /\ \E i \in Stores : trace[i].op < th[t].op

\* thread t is at the end of the loadAll call that set isLoaded
InCompletedCall(t) ==
  /\ th[t].pc = "loadAll_ret"
  /\ \E i \in Stores : trace[i].op = th[t].op

\* thread t is inside loadAll, past the guard
LoadAllPcs ==
  {"loadIO_1", "loadIO_2", "loadSio2man", "loadPadman", "loadLibsd",
   "loadUsbModules_1", "loadUsbModules_2", "loadUsbModules_3",
   "loadUsbModules_4", "waitUntilUsbDeviceIsReady", "waitLoop",
   "loadHddModules_1", "loadHddModules_2", "loadHddModules_3",
   "loadHddModules_4", "loadAudsrv", "markLoaded", "loadAll_ret"}

AllUsbImages ==
  {"usbd_irx", "usbd_mini_irx", "usbmass_bd_irx", "usbmass_bd_mini_irx",
   "bdm_irx", "bdmfs_fatfs_irx"}
AllHddImages == {"ps2hdd_irx", "ps2fs_irx", "ps2dev9_irx", "ps2atad_irx"}
RequiredImages ==
  {"iomanX_irx", "fileXio_irx", "sio2man_irx", "padman_irx", "libsd_irx"}

----------------------------------------------------------------------------
(* C1 -- once a loadAll call has set isLoaded, no module load and no       *)
(* readiness probe is ever issued again and isLoaded stays true: every     *)
(* later loadAll call, whatever its three arguments, goes from the guard   *)
(* straight to its return and leaves no event in the history.              *)
C1_Idempotent ==
  \A i \in Stores :
    /\ isLoaded
    /\ \A j \in Idx : j > i => trace[j].kind \notin {"load", "probe", "delay", "store"}
    /\ \A t \in DOMAIN th :
         (th[t].pc \in LoadAllPcs /\ th[t].op > trace[i].op) =>
           /\ th[t].pc = "loadAll_ret"
           /\ \A j \in Idx : trace[j].op # th[t].op

\* with two objects constructed, a second call with withUsb = true has
\* returned from the guard after a first call that loaded no USB module
C1_Witness ==
  \E t \in DOMAIN th :
    /\ InNoOpCall(t)
    /\ th[t].withUsb
    /\ isLoaded
    /\ loaders >= 2
    /\ \A j \in Idx : trace[j].name \notin AllUsbImages

----------------------------------------------------------------------------
(* C2 -- every module load is preceded by one run of applyRpcPatches in    *)
(* which each of the three patches returned a non-negative status; so in   *)
(* a run where loadAll completes, the patches are done before iomanX.      *)
PatchedBefore(j) ==
  \E o \in {trace[i].op : i \in 1..(j - 1)} :
    \A p \in Range(PatchOrder) :
      \E i \in 1..(j - 1) :
        /\ trace[i].kind = "patch"
        /\ trace[i].name = p
        /\ trace[i].op = o
        /\ trace[i].res >= 0

C2_PatchBeforeLoad ==
  \A j \in Idx : trace[j].kind = "load" => PatchedBefore(j)

\* a loadAll has completed and its first load was iomanX, after the patches
C2_Witness ==
  \E t \in DOMAIN th :
    /\ InCompletedCall(t)
    /\ \E j \in Idx :
         /\ trace[j].kind = "load"
         /\ trace[j].name = "iomanX_irx"
         /\ \A i \in 1..(j - 1) : trace[i].kind # "load"
         /\ PatchedBefore(j)

----------------------------------------------------------------------------
(* C3 -- a module load whose result is negative is the last thing the      *)
(* process does: it halts at that module, no later module is attempted,    *)
(* no readiness probe follows and isLoaded is still false.                 *)
C3_FatalPropagation ==
  \A j \in Idx :
    (trace[j].kind = "load" /\ trace[j].res < 0) =>
      /\ j = Len(trace)
      /\ Halted
      /\ ~isLoaded
      /\ \A t \in DOMAIN th :
           th[t].op = trace[j].op => th[t].pc \notin {"markLoaded", "loadAll_ret", "idle"}

\* the process has halted at bdm, in the middle of the USB batch
C3_Witness ==
  /\ Halted
  /\ Len(trace) > 0
  /\ trace[Len(trace)].kind = "load"
  /\ trace[Len(trace)].name = "bdm_irx"
  /\ trace[Len(trace)].res < 0

----------------------------------------------------------------------------
(* C4 -- each run of applyRpcPatches invokes the toggles in the order      *)
(* enable_lmb, disable_prefix_check, fileio, each at most once; the        *)
(* toggles invoked are the prefix of that order up to and including the    *)
(* first negative status, which halts the process so that nothing, and in  *)
(* particular no module load, is issued after it.                          *)
PatchOps == {trace[i].op : i \in {j \in Idx : trace[j].kind = "patch"}}

C4_PatchOrder ==
  \A o \in PatchOps :
    LET ps == EventsOf(o, "patch")
        n == Len(ps)
    IN /\ n <= Len(PatchOrder)
       /\ Names(ps) = SubSeq(PatchOrder, 1, n)
       /\ \A k \in 1..(n - 1) : ps[k].res >= 0
       /\ ps[n].res < 0 => (Halted /\ trace[Len(trace)] = ps[n])
       /\ (ps[n].res >= 0 /\ n < Len(PatchOrder)) =>
            \E t \in DOMAIN th : th[t].op = o /\ th[t].pc = PatchOrder[n + 1]

\* the second toggle failed: two toggles invoked, process halted, no load
C4_Witness ==
  /\ Halted
  /\ Len(trace) > 0
  /\ trace[Len(trace)].kind = "patch"
  /\ trace[Len(trace)].name = "sbv_patch_disable_prefix_check"
  /\ trace[Len(trace)].res < 0
  /\ \A j \in Idx : trace[j].kind # "load"

----------------------------------------------------------------------------
(* C5 -- a loadAll call issues a load of a USB-batch image only if withUsb *)
(* and of an HDD-batch image only if withHdd; a completed call with both   *)
(* false has issued exactly six loads, of iomanX, fileXio, sio2man,        *)
(* padman, libsd and audsrv, and no readiness probe.                       *)
C5_ConditionalBatches ==
  \A t \in DOMAIN th :
    th[t].pc \in LoadAllPcs =>
      LET ls == Names(EventsOf(th[t].op, "load")) IN
      /\ ~th[t].withUsb =>
           /\ Range(ls) \cap AllUsbImages = {}
           /\ EventsOf(th[t].op, "probe") = <<>>
           /\ EventsOf(th[t].op, "delay") = <<>>
      /\ ~th[t].withHdd => Range(ls) \cap AllHddImages = {}
      /\ (InCompletedCall(t) /\ ~th[t].withUsb /\ ~th[t].withHdd) =>
           /\ Range(ls) = RequiredImages \cup {"audsrv_irx"}
           /\ Len(ls) = 6

\* a call with neither batch has completed
C5_Witness ==
  \E t \in DOMAIN th :
    /\ InCompletedCall(t)
    /\ ~th[t].withUsb
    /\ ~th[t].withHdd
    /\ Len(EventsOf(th[t].op, "load")) = 6

----------------------------------------------------------------------------
(* C6 -- bdm is loaded only after the USB driver and the mass-storage      *)
(* bridge of the build were loaded with a non-negative result, bdmfs_fatfs *)
(* only after bdm, ps2fs only after ps2hdd, ps2dev9 only after ps2fs and   *)
(* ps2atad only after ps2dev9.                                             *)
LoadedBefore(j, image) ==
  \E i \in 1..(j - 1) :
    /\ trace[i].kind = "load"
    /\ trace[i].name = image
    /\ trace[i].op = trace[j].op
    /\ trace[i].res >= 0

----------------------------------------------------------------------------
(* C7 -- a readiness poll issues at most 50 probes, whatever the probe     *)
(* answers, and then returns: it never halts the process, and when its     *)
(* loop condition fails the return to loadUsbModules is enabled.           *)
C7_PollBound ==
  /\ \A o \in {trace[i].op : i \in Idx} :
       Len(EventsOf(o, "probe")) <= Retries
  /\ \A t \in DOMAIN th :
       th[t].pc = "waitLoop" =>
         /\ Len(EventsOf(th[t].op, "probe")) = Retries - th[t].retries
         /\ th[t].retries >= 0
         /\ ~Halted
         /\ ~WaitCondition(th[t]) => ENABLED WaitReturn(t)

\* fifty probes have all failed and the poll has returned to loadAll
C7_Witness ==
  \E t \in DOMAIN th :
    /\ th[t].pc \in {"loadHddModules_1", "loadAudsrv"}
    /\ ~Halted
    /\ Len(EventsOf(th[t].op, "probe")) = Retries
    /\ \A j \in Idx : trace[j].kind = "probe" => trace[j].res # 0

----------------------------------------------------------------------------
(* C8 -- the readiness poll is entered right after bdmfs_fatfs was loaded  *)
(* with a non-negative result, its probes follow its entry without any     *)
(* other call in between, no probe of a call follows a load of an HDD      *)
(* image or of audsrv by that call, and a loadAll that has passed its last *)
(* load has run the poll once if withUsb and not at all otherwise.         *)
C8_PollPlacement ==
  /\ \A j \in Idx :
       /\ trace[j].kind = "delay" =>
            /\ j > 1
            /\ trace[j - 1].kind = "load"
            /\ trace[j - 1].name = "bdmfs_fatfs_irx"
            /\ trace[j - 1].op = trace[j].op
            /\ trace[j - 1].res >= 0
       /\ trace[j].kind = "probe" =>
            /\ j > 1
            /\ trace[j - 1].kind \in {"delay", "probe"}
            /\ trace[j - 1].op = trace[j].op
       /\ (trace[j].kind = "load"
             /\ trace[j].name \in AllHddImages \cup {"audsrv_irx"}) =>
            \A k \in Idx :
              (k > j /\ trace[k].op = trace[j].op) =>
                trace[k].kind \notin {"delay", "probe"}
  /\ \A t \in DOMAIN th :
       (th[t].pc = "markLoaded" \/ InCompletedCall(t)) =>
         /\ Len(EventsOf(th[t].op, "delay")) = (IF th[t].withUsb THEN 1 ELSE 0)
         /\ th[t].withUsb => Len(EventsOf(th[t].op, "probe")) >= 1
         /\ ~th[t].withUsb => Len(EventsOf(th[t].op, "probe")) = 0

\* a call with both batches has completed, its poll between the two
C8_Witness ==
  \E t \in DOMAIN th :
    /\ InCompletedCall(t)
    /\ th[t].withUsb
    /\ th[t].withHdd
    /\ Len(EventsOf(th[t].op, "probe")) >= 2

----------------------------------------------------------------------------
(* C9 -- isLoaded starts false, is stored to at most once, and from that   *)
(* store on is true in every state.                                        *)
C9_OneShotFlag ==
  /\ Cardinality(Stores) <= 1
  /\ isLoaded <=> Stores # {}

\* the flag is set and two constructions and two calls have been made
C9_Witness ==
  /\ isLoaded
  /\ nCtor >= 2
  /\ nCalls >= 2
  /\ \A t \in DOMAIN th : th[t].pc = "idle"

----------------------------------------------------------------------------
(* C10 -- the patch applier is invoked at most once in a process, and no   *)
(* patch toggle is applied after isLoaded has been set.                    *)
C10_PatchOnce ==
  /\ Cardinality(PatchOps) <= 1
  /\ \A i \in Stores : \A j \in Idx : j > i => trace[j].kind # "patch"

----------------------------------------------------------------------------
(* C11 -- the loads a completed loadAll has issued are, in this order,     *)
(* iomanX, fileXio, sio2man, padman, libsd, then iff withUsb the USB       *)
(* driver, the mass-storage bridge, bdm, bdmfs_fatfs, then iff withHdd     *)
(* ps2hdd, ps2fs, ps2dev9 and, iff ATAD is defined, ps2atad, then audsrv;  *)
(* no image twice.                                                         *)
DocumentedOrder(b, withUsb, withHdd) ==
  <<"iomanX_irx", "fileXio_irx", "sio2man_irx", "padman_irx", "libsd_irx">>
  \o (IF withUsb
      THEN <<IF b.USE_USBDMINI THEN "usbd_mini_irx" ELSE "usbd_irx",
             IF b.USE_USBDMINI THEN "usbmass_bd_mini_irx" ELSE "usbmass_bd_irx",
             "bdm_irx", "bdmfs_fatfs_irx">>
      ELSE <<>>)
  \o (IF withHdd
      THEN <<"ps2hdd_irx", "ps2fs_irx", "ps2dev9_irx">>
           \o (IF b.ATAD THEN <<"ps2atad_irx">> ELSE <<>>)
      ELSE <<>>)
  \o <<"audsrv_irx">>

C11_GlobalOrder ==
  \A t \in DOMAIN th :
    (th[t].pc = "markLoaded" \/ InCompletedCall(t)) =>
      LET ls == Names(EventsOf(th[t].op, "load")) IN
      /\ ls = DocumentedOrder(build, th[t].withUsb, th[t].withHdd)
      /\ ls[Len(ls)] = "audsrv_irx"
      /\ Cardinality(Range(ls)) = Len(ls)

\* a call with both batches, ps2atad included, has completed: 14 loads
C11_Witness ==
  \E t \in DOMAIN th :
    /\ InCompletedCall(t)
    /\ th[t].withUsb
    /\ th[t].withHdd
    /\ Len(EventsOf(th[t].op, "load")) = 14

----------------------------------------------------------------------------
(* C12 -- whenever isLoaded is true, the call that set it has issued the   *)
(* loads of iomanX, fileXio, sio2man, padman, libsd and audsrv, and of     *)
(* every image of the batches its arguments select, each with a            *)
(* non-negative result; the store follows directly on the audsrv load with *)
(* a non-negative result; an operation with a negative patch or load       *)
(* result has not set the flag.                                            *)
LoadedWith(o, image, before) ==
  \E j \in 1..(before - 1) :
    /\ trace[j].kind = "load"
    /\ trace[j].name = image
    /\ trace[j].op = o
    /\ trace[j].res >= 0

----------------------------------------------------------------------------
(* C13 -- a load whose primitive reported failure (negative status of      *)
(* SifExecModuleBuffer) halts the process, like a negative module result:  *)
(* no thread goes on after a call that returned a negative status.         *)
C13_PrimitiveFailureFatal ==
  \A t \in DOMAIN th : th[t].execStatus < 0 => Halted

----------------------------------------------------------------------------
(* C14 -- the poll delays once, by the fixed initial amount, before its    *)
(* first probe; it issues at least one probe and stops at the first probe  *)
(* that returns 0 or after 50 probes, so no probe follows a successful one *)
(* and the number of probes is min(k, 50) for a first success at probe k;  *)
(* every probe is followed by one inter-probe delay.                       *)
AfterPollPcs ==
  {"loadHddModules_1", "loadHddModules_2", "loadHddModules_3",
   "loadHddModules_4", "loadAudsrv", "markLoaded", "loadAll_ret"}

PolledAndReturned(t) ==
  /\ th[t].withUsb
  /\ \/ th[t].pc \in AfterPollPcs \ {"loadAll_ret"}
     \/ InCompletedCall(t)

C14_PollEarlyExit ==
  \A t \in DOMAIN th :
    LET ps == EventsOf(th[t].op, "probe")
        ds == EventsOf(th[t].op, "delay")
    IN
    /\ Len(ps) <= Retries
    /\ \A i \in 1..(Len(ps) - 1) : ps[i].res # 0
    /\ Len(ds) <= 1
    /\ Len(ps) > 0 => Len(ds) = 1
    /\ \A i \in Idx :
         (trace[i].op = th[t].op /\ trace[i].kind = "delay") =>
           /\ trace[i].res = InitialDelay
           /\ \A j \in 1..(i - 1) :
                ~(trace[j].op = th[t].op /\ trace[j].kind = "probe")
    /\ th[t].pc = "waitLoop" =>
         /\ Len(ds) = 1
         /\ Len(ps) = Retries - th[t].retries
         /\ th[t].nopdelays = Len(ps)
         /\ ~WaitCondition(th[t]) =>
              /\ Len(ps) >= 1
              /\ ps[Len(ps)].res = 0 \/ Len(ps) = Retries
    /\ PolledAndReturned(t) =>
         /\ Len(ps) >= 1
         /\ ps[Len(ps)].res = 0 \/ Len(ps) = Retries

C14_Witness ==
  \E t \in DOMAIN th :
    LET ps == EventsOf(th[t].op, "probe") IN
    /\ PolledAndReturned(t)
    /\ Len(ps) = 2
    /\ ps[1].res # 0
    /\ ps[2].res = 0

----------------------------------------------------------------------------
(* C15 -- a poll whose 50 probes all failed is not an error: the process   *)
(* is not halted by it, loadAll goes on with the HDD batch (if selected)   *)
(* and audsrv exactly as after a successful poll, and when those loads     *)
(* pass it sets isLoaded; the sequence of module loads is the documented   *)
(* one, the same as in a run whose device became ready.                    *)
IsPrefix(p, q) ==
  /\ Len(p) <= Len(q)
  /\ \A i \in 1..Len(p) : p[i] = q[i]

AllProbesFailed(t) ==
  LET ps == EventsOf(th[t].op, "probe") IN
  /\ Len(ps) = Retries
  /\ \A i \in 1..Len(ps) : ps[i].res # 0

C15_NotReadySwallowed ==
  \A t \in DOMAIN th :
    AllProbesFailed(t) =>
      LET ls == Names(EventsOf(th[t].op, "load"))
          le == EventsOf(th[t].op, "load")
          full == DocumentedOrder(build, TRUE, th[t].withHdd)
      IN
      /\ th[t].withUsb
      /\ th[t].pc = "waitLoop" => (~Halted /\ ENABLED WaitReturn(t))
      /\ IsPrefix(ls, full)
      /\ Halted => (th[t].pc # "waitLoop" /\ le[Len(le)].res < 0)
      /\ (th[t].pc \in AfterPollPcs /\ ~Halted /\ th[t].pc # "loadAll_ret") =>
           th[t].pc = (IF Len(ls) = Len(full) THEN "markLoaded"
                       ELSE IF full[Len(ls) + 1] = "audsrv_irx" THEN "loadAudsrv"
                       ELSE IF full[Len(ls) + 1] = "ps2hdd_irx" THEN "loadHddModules_1"
                       ELSE IF full[Len(ls) + 1] = "ps2fs_irx" THEN "loadHddModules_2"
                       ELSE IF full[Len(ls) + 1] = "ps2dev9_irx" THEN "loadHddModules_3"
                       ELSE "loadHddModules_4")
      /\ InCompletedCall(t) => (isLoaded /\ ls = full)

C15_Witness ==
  \E t \in DOMAIN th :
    /\ AllProbesFailed(t)
    /\ InCompletedCall(t)
    /\ th[t].withHdd
    /\ isLoaded

----------------------------------------------------------------------------
(* C16 -- the logging argument of loadAll has no influence on control      *)
(* flow: the sequence of load, delay, probe and store calls of a loadAll   *)
(* call, whether it halts or completes, and the final isLoaded are a       *)
(* function of the build, withUsb, withHdd, the initial isLoaded and the   *)
(* results of the calls alone, so two runs that differ only in the logging *)
(* argument agree on all of them.                                          *)
CallsOf(o) ==
  LET evs == SelectSeq(trace, LAMBDA e : e.op = o /\ e.kind # "reset")
  IN [i \in 1..Len(evs) |-> <<evs[i].kind, evs[i].name>>]

Loads(names) == [i \in 1..Len(names) |-> <<"load", names[i]>>]

\* the calls of a full loadAll with np probes, from the arguments other than
\* the logging one
ExpectedCalls(b, withUsb, withHdd, np) ==
  Loads(<<"iomanX_irx", "fileXio_irx", "sio2man_irx", "padman_irx",
          "libsd_irx">>)
  \o (IF withUsb
        THEN Loads(<<UsbDriverImage(b), UsbMassImage(b), "bdm_irx",
                     "bdmfs_fatfs_irx">>)
             \o <<(<<"delay", "delay">>)>>
             \o [i \in 1..np |-> <<"probe", "mass:/">>]
        ELSE <<>>)
  \o (IF withHdd
        THEN Loads(<<"ps2hdd_irx", "ps2fs_irx", "ps2dev9_irx">>
                   \o (IF b.ATAD THEN <<"ps2atad_irx">> ELSE <<>>))
        ELSE <<>>)
  \o Loads(<<"audsrv_irx">>)
  \o <<(<<"store", "isLoaded">>)>>

C16_LoggingNoControlFlow ==
  \A t \in DOMAIN th :
    th[t].pc \in LoadAllPcs =>
      LET o == th[t].op
          calls == CallsOf(o)
          np == Len(EventsOf(o, "probe"))
          expected == ExpectedCalls(build, th[t].withUsb, th[t].withHdd, np)
          wasLoaded == \E i \in Stores : i <= th[t].startLen
          failed == {i \in Idx : trace[i].op = o /\ trace[i].kind = "load"
                                   /\ trace[i].res < 0}
      IN
      /\ wasLoaded => (calls = <<>> /\ th[t].pc = "loadAll_ret" /\ isLoaded)
      /\ ~wasLoaded =>
           /\ IsPrefix(calls, expected)
           /\ Halted <=> failed # {}
           /\ \A i \in failed : i = Len(trace)
           /\ th[t].pc = "loadAll_ret" <=> calls = expected
           /\ th[t].pc = "loadAll_ret" => isLoaded
           /\ (th[t].pc # "loadAll_ret" /\ ~Halted) => ENABLED Next

C16_Witness ==
  \E t \in DOMAIN th :
    /\ InCompletedCall(t)
    /\ th[t].isLoggingToFile
    /\ th[t].withUsb
    /\ CallsOf(th[t].op) =
         ExpectedCalls(build, TRUE, th[t].withHdd, Len(EventsOf(th[t].op, "probe")))

----------------------------------------------------------------------------
(* C17 -- in every build configuration of USE_USBBDMINI and USE_USBDMINI   *)
(* a USB batch loads exactly one driver image and one bridge image, both   *)
(* mini or both standard, and every image it loads is among the images     *)
(* declared for that configuration.                                        *)
DriverImages == {"usbd_irx", "usbd_mini_irx"}
BridgeImages == {"usbmass_bd_irx", "usbmass_bd_mini_irx"}
MiniImages == {"usbd_mini_irx", "usbmass_bd_mini_irx"}

C17_CoherentVariant ==
  \A t \in DOMAIN th :
    LET ls == Range(Names(EventsOf(th[t].op, "load"))) IN
    /\ Cardinality(ls \cap DriverImages) <= 1
    /\ Cardinality(ls \cap BridgeImages) <= 1
    /\ "bdm_irx" \in ls =>
         /\ Cardinality(ls \cap DriverImages) = 1
         /\ Cardinality(ls \cap BridgeImages) = 1
         /\ \/ (ls \cap (DriverImages \cup BridgeImages)) \subseteq MiniImages
            \/ (ls \cap (DriverImages \cup BridgeImages)) \cap MiniImages = {}
    /\ ls \subseteq DeclaredImages(build)

----------------------------------------------------------------------------
(* C18 -- when every call returns, a loadAll invocation terminates: it     *)
(* reaches its return with isLoaded set or the process is halted; each     *)
(* round of the readiness poll lowers the retry counter by one, from 50    *)
(* down to 0 at most, so the poll cannot go round forever.                 *)
ThreadIds == {1, 2}

InLoadAll(t) == t \in DOMAIN th /\ th[t].pc \in LoadAllPcs

Terminated(t) ==
  \/ Halted
  \/ /\ t \in DOMAIN th
     /\ th[t].pc = "loadAll_ret"
     /\ isLoaded

CountdownStep ==
  \A t \in DOMAIN th :
    (th[t].pc = "waitLoop" /\ th'[t].pc = "waitLoop" /\ th'[t] # th[t]) =>
      /\ th[t].retries \in 1..Retries
      /\ th'[t].retries = th[t].retries - 1

C18_Termination ==
  /\ \A t \in ThreadIds : InLoadAll(t) ~> Terminated(t)
  /\ [][CountdownStep]_vars

C18_Witness ==
  \E t \in DOMAIN th :
    /\ th[t].pc = "waitLoop"
    /\ th[t].retries = 0
    /\ th[t].statRet # 0

----------------------------------------------------------------------------
(* C19 -- as claimed: with two overlapping loadAll invocations no module   *)
(* image is injected more than once and isLoaded is written at most once.  *)
C19_NoDoubleInjection ==
  /\ \A i, j \in Idx :
       (i < j /\ trace[i].kind = "load" /\ trace[j].kind = "load") =>
         trace[i].name # trace[j].name
  /\ Cardinality(Stores) <= 1

(* C19, amended -- the guard protects only against invocations that start  *)
(* after isLoaded was written: such an invocation injects nothing, writes  *)
(* nothing and goes straight to its return, also while the invocation that *)
(* wrote the flag has not returned yet. Every invocation injects each      *)
(* image at most once and writes the flag at most once, so an image that   *)
(* is injected twice was injected by two different invocations, which both *)
(* passed the guard before the first write.                                *)
StartedAfterStore(t) == \E i \in Stores : i <= th[t].startLen

C19_GuardAfterStoreOnly ==
  /\ \A t \in DOMAIN th :
       th[t].pc \in LoadAllPcs =>
         /\ StartedAfterStore(t) =>
              /\ th[t].pc = "loadAll_ret"
              /\ \A i \in Idx : trace[i].op # th[t].op
         /\ ~StartedAfterStore(t) =>
              (th[t].pc = "loadAll_ret" <=>
                 \E i \in Stores : trace[i].op = th[t].op)
  \* the newest event, when it repeats an injection or a write of the flag,
  \* is of another invocation than the earlier one
  /\ \A i \in 1..(Len(trace) - 1) :
       (trace[i].kind \in {"load", "store"}
          /\ trace[i].kind = trace[Len(trace)].kind
          /\ trace[i].name = trace[Len(trace)].name) =>
         trace[i].op # trace[Len(trace)].op

C19_Witness ==
  \E a, b \in DOMAIN th :
    /\ a # b
    /\ InCompletedCall(a)
    /\ th[b].pc = "loadAll_ret"
    /\ StartedAfterStore(b)
    /\ \A i \in Idx : trace[i].op # th[b].op

----------------------------------------------------------------------------
(* C20 -- whenever isLoaded is true the modules injected by the loadAll    *)
(* that set it are still resident on the I/O processor: no operation of    *)
(* the loader has reset the I/O processor since, so a later loadAll that   *)
(* returns at the guard finds the modules in place.                        *)
LastReset ==
  LET rs == {i \in Idx : trace[i].kind = "reset"}
  IN IF rs = {} THEN 0 ELSE CHOOSE i \in rs : \A j \in rs : j <= i

\* the images injected since the I/O processor was last reset
Resident ==
  {trace[i].name : i \in {j \in Idx : /\ j > LastReset
                                      /\ trace[j].kind = "load"
                                      /\ trace[j].res >= 0}}

C20_FlagAgreesWithCoprocessor ==
  isLoaded =>
    /\ (RequiredImages \cup {"audsrv_irx"}) \subseteq Resident
    /\ \A i \in Stores : LastReset < i

====
